---- MODULE Spec2Model ----
(***************************************************************************)
(* BatchQueryService (query batching and caching layer) and the part of    *)
(* TimerManager it uses, as a state machine.                               *)
(*                                                                         *)
(* One action is one run-to-completion step of the JavaScript event loop:  *)
(* a public call up to its first await, a timer callback, or the           *)
(* continuation that runs when a Data Store promise settles.               *)
(***************************************************************************)
EXTENDS Integers, Sequences, FiniteSets, TLC

VARIABLES
  now,             \* Date.now()
  cache,           \* this.cache: Map cacheKey -> {data, timestamp}
  pendingQueries,  \* this.pendingQueries: Map cacheKey -> array of waiters
  batchQueue,      \* this.batchQueue: Map cacheKey -> queryFn
  batchTimeout,    \* this.batchTimeout: null or the id safeSetTimeout returned
  timeouts,        \* timerManager.timeouts: how many tracked timers per name
  store,           \* the Data Store: a version per collection, bumped by writes
  nCalls,          \* how many public read calls have been made
  waiting,         \* the callers whose promise is not settled yet, by call id
  inflight,        \* the Data Store reads issued and not yet answered
  flushes,         \* how many times processBatchQueue has run
  settled          \* the calls that returned in the step that led here

vars == <<now, cache, pendingQueries, batchQueue, batchTimeout, timeouts,
          store, nCalls, waiting, inflight, flushes, settled>>

----------------------------------------------------------------------------
(* Bounds of the model *)

\* at most this many public read calls are made in one behaviour
MaxCalls == 3
\* the clock stops advancing here
MaxTime == 2
\* at most this many writes reach one collection of the Data Store
MaxWrites == 1

(* Configuration of the service. Time is counted in units of half a       *)
(* CACHE_DURATION, and the batch size is scaled down, so that the cases at *)
(* and beyond each limit are reached.                                      *)
CACHE_DURATION == 2
MAX_BATCH_SIZE == 2

----------------------------------------------------------------------------
(* Values *)

\* JavaScript null
NULL == <<"null">>
\* names given to safeSetTimeout
BatchTimer == "batchQueryProcessor"
CleanupTimer == "cacheCleanup"
TimerNames == {BatchTimer, CleanupTimer}

Collections == {"inquiries", "quotes"}
\* a collection whose name holds the separator of the cache key
ArchiveCollection == "inquiries:archive"
AllCollections == Collections \cup {ArchiveCollection}
\* the text of a collection name, cut at its ':' characters
NameText ==
  [c \in AllCollections |->
     IF c = ArchiveCollection THEN <<"inquiries", ":", "archive">> ELSE <<c>>]

(* queryParams objects, as the sequence of their (name, value) properties  *)
(* in insertion order.                                                     *)
NoParams == <<>>
StatusLimit == << <<"status", "new">>, <<"limit", "10">> >>
LimitStatus == << <<"limit", "10">>, <<"status", "new">> >>
DocIdParam == << <<"docId", "u2">> >>

\* the (collection, queryParams, useCache) arguments of the batched smartQuery calls
BatchInputs ==
  { <<"inquiries", StatusLimit, TRUE>>, <<"inquiries", StatusLimit, FALSE>>,
    <<"inquiries", DocIdParam, TRUE>>, <<"quotes", NoParams, TRUE>> }
(* the (collection, queryParams) arguments of the batched smartQuery calls  *)
(* that spell one query in both orders                                     *)
KeyInputs ==
  { <<"inquiries", StatusLimit>>, <<"inquiries", LimitStatus>>,
    <<"inquiries", DocIdParam>>, <<"quotes", NoParams>> }
\* the (collection, queryParams) arguments of the batched reads that use the cache
CachedInputs == { <<"inquiries", DocIdParam>> }
\* the (collection, queryParams) arguments of the direct (unbatched) reads
DirectInputs == { <<"inquiries", StatusLimit>> }
\* the (collection, docId) arguments callers pass to getDocument
DocInputs == { <<"inquiries", "u1">>, <<"inquiries", "u2">> }
\* the documents the Data Store holds
ExistingDocs == { <<"inquiries", "u1">> }

(* The request objects callers pass to batchGetDocuments, by identity, and *)
(* the {collection, docId} each holds: r3 is another object with r1's      *)
(* content.                                                                *)
RequestOf ==
  [r1 |-> <<"inquiries", "u1">>, r2 |-> <<"inquiries", "u2">>,
   r3 |-> <<"inquiries", "u1">>]
\* the (requests, useCache) arguments of the batchGetDocuments calls
BatchGetInputs ==
  { << <<>>, TRUE >>, << <<"r1">>, TRUE >>, << <<"r1", "r2">>, TRUE >>,
    << <<"r1", "r1">>, TRUE >>, << <<"r2", "r1", "r3">>, TRUE >>,
    << <<"r3", "r2">>, FALSE >> }

\* Object.keys(...).sort() orders property names by code unit
NameRank == [docId |-> 1, limit |-> 2, status |-> 3]

Remove(f, K) == [k \in DOMAIN f \ K |-> f[k]]

RECURSIVE SeqToSet(_)
SeqToSet(s) == IF s = <<>> THEN {} ELSE {Head(s)} \cup SeqToSet(Tail(s))

----------------------------------------------------------------------------
(* Cache Store *)

RECURSIVE InsertSorted(_, _)
InsertSorted(pair, sorted) ==
  IF sorted = <<>> THEN <<pair>>
  ELSE IF NameRank[pair[1]] <= NameRank[Head(sorted)[1]]
       THEN <<pair>> \o sorted
       ELSE <<Head(sorted)>> \o InsertSorted(pair, Tail(sorted))

RECURSIVE SortParams(_)
SortParams(queryParams) ==
  IF queryParams = <<>> THEN <<>>
  ELSE InsertSorted(Head(queryParams), SortParams(Tail(queryParams)))

\* the key built from the parameters in insertion order, without the sort
generateCacheKeyUnsorted(collection, queryParams) == <<collection, queryParams>>

\* `${collection}:${JSON.stringify(sortedParams)}`
generateCacheKey(collection, queryParams) ==
  <<collection, SortParams(queryParams)>>

(* The text of a cache key: the collection name, ':', and the JSON of the   *)
(* sorted parameters (one token).                                          *)
KeyText(cacheKey) == NameText[cacheKey[1]] \o <<":">> \o <<cacheKey[2]>>

\* String.prototype.startsWith
startsWith(text, prefix) ==
  /\ Len(prefix) <= Len(text)
  /\ SubSeq(text, 1, Len(prefix)) = prefix

\* key.startsWith(`${collection}:`)
keyOfCollection(cacheKey, collection) ==
  startsWith(KeyText(cacheKey), NameText[collection] \o <<":">>)

\* the validity check with <= for <
isCacheValidInclusive(cacheEntry) == now - cacheEntry.timestamp <= CACHE_DURATION

isCacheValid(cacheEntry) == now - cacheEntry.timestamp < CACHE_DURATION

\* a getFromCache that refreshes the timestamp of the entry it returns
cacheAfterGetRefreshes(cacheKey) ==
  IF cacheKey \in DOMAIN cache
  THEN IF isCacheValid(cache[cacheKey])
       THEN [cache EXCEPT ![cacheKey].timestamp = now]
       ELSE Remove(cache, {cacheKey})
  ELSE cache

\* what getFromCache returns
getFromCache(cacheKey) ==
  IF cacheKey \in DOMAIN cache /\ isCacheValid(cache[cacheKey])
  THEN cache[cacheKey].data
  ELSE NULL

\* the cache after getFromCache: an expired entry is deleted on access
cacheAfterGet(cacheKey) ==
  IF cacheKey \in DOMAIN cache /\ ~isCacheValid(cache[cacheKey])
  THEN Remove(cache, {cacheKey})
  ELSE cache

setCache(c, cacheKey, data) ==
  (cacheKey :> [data |-> data, timestamp |-> now]) @@ c

\* the scan with > for >=: an entry of age CACHE_DURATION survives it
cleanupExclusive(c) ==
  Remove(c, {k \in DOMAIN c : now - c[k].timestamp > CACHE_DURATION})

\* the scan of startCacheCleanup
cleanup(c) ==
  Remove(c, {k \in DOMAIN c : now - c[k].timestamp >= CACHE_DURATION})

----------------------------------------------------------------------------
(* Callers and Data Store reads *)

(* a caller: which call it made, with which (collection, queryParams)      *)
(* arguments, and how many flushes had run by then                         *)
Caller(id, op, args, cacheKey, useCache, batched) ==
  [id |-> id, op |-> op, args |-> args, key |-> cacheKey,
   useCache |-> useCache, batched |-> batched, win |-> flushes]

\* a call served from the cache
Hit(caller, data) ==
  [call |-> caller, st |-> "ok", val |-> data, src |-> "cache",
   qkey |-> caller.key, qflush |-> 0]

\* a call settled by the Data Store read q
Answer(caller, q, st, val) ==
  [call |-> caller, st |-> st, val |-> val, src |-> "store",
   qkey |-> q.key, qflush |-> q.flush]

(* A Data Store read in flight: kind "get" is docRef.get(), "query" is      *)
(* query.get(). flush is 0 for a direct read, else the flush that issued   *)
(* it; snap is the store's version when it was issued; inval records an    *)
(* invalidateCollection of its collection while it is in flight.           *)
NewQuery(kind, cacheKey, useCache, waiters, flush) ==
  [kind |-> kind, key |-> cacheKey, useCache |-> useCache, waiters |-> waiters,
   snap |-> store[cacheKey[1]], flush |-> flush, inval |-> FALSE]

\* what a successful read returns when the store answers at version v
StoreResult(q, v) ==
  IF q.kind = "get"
  THEN IF <<q.key[1], q.key[2][1][2]>> \in ExistingDocs
       THEN <<"doc", q.key[2][1][2], v>>
       ELSE NULL
  ELSE <<"docs", q.key[1], v>>

\* the error a failed read throws
StoreError(q) == <<"error", q.key[1], q.flush>>

----------------------------------------------------------------------------
(* Batch Coordinator *)

\* the id safeSetTimeout returns (never null: ids count up from 1)
TimerId(name) == <<"timer", name>>

\* safeSetTimeout(callback, delay, name): one more tracked timer of that name
safeSetTimeout(name) == [timeouts EXCEPT ![name] = @ + 1]

\* queueQuery without the check for a pending group: every caller starts one
queueQueryNoJoin(cacheKey, useCache, id) ==
  /\ pendingQueries' = (cacheKey :> <<id>>) @@ pendingQueries
  /\ batchQueue' = (cacheKey :> [useCache |-> useCache]) @@ batchQueue
  /\ IF batchTimeout = NULL
     THEN /\ batchTimeout' = TimerId(BatchTimer)
          /\ timeouts' = safeSetTimeout(BatchTimer)
     ELSE UNCHANGED <<batchTimeout, timeouts>>

\* queueQuery that opens a group without queueing its queryFn
queueQueryDropsQueryFn(cacheKey, useCache, id) ==
  IF cacheKey \in DOMAIN pendingQueries
  THEN /\ pendingQueries' =
            [pendingQueries EXCEPT ![cacheKey] = Append(@, id)]
       /\ UNCHANGED <<batchQueue, batchTimeout, timeouts>>
  ELSE /\ pendingQueries' = (cacheKey :> <<id>>) @@ pendingQueries
       /\ batchQueue' = batchQueue
       /\ IF batchTimeout = NULL
          THEN /\ batchTimeout' = TimerId(BatchTimer)
               /\ timeouts' = safeSetTimeout(BatchTimer)
          ELSE UNCHANGED <<batchTimeout, timeouts>>

(* queueQuery(queryFn, cacheKey) for the caller `id`. The queryFn closes    *)
(* over the cacheKey and the useCache flag of the smartQuery call that      *)
(* built it.                                                               *)
queueQuery(cacheKey, useCache, id) ==
  IF cacheKey \in DOMAIN pendingQueries
  THEN /\ pendingQueries' =
            [pendingQueries EXCEPT ![cacheKey] = Append(@, id)]
       /\ UNCHANGED <<batchQueue, batchTimeout, timeouts>>
  ELSE /\ pendingQueries' = (cacheKey :> <<id>>) @@ pendingQueries
       /\ batchQueue' = (cacheKey :> [useCache |-> useCache]) @@ batchQueue
       /\ IF batchTimeout = NULL
          THEN /\ batchTimeout' = TimerId(BatchTimer)
               /\ timeouts' = safeSetTimeout(BatchTimer)
          ELSE UNCHANGED <<batchTimeout, timeouts>>

\* the waiters processBatchQueue takes for one queued key
pendingCallbacks(cacheKey) ==
  IF cacheKey \in DOMAIN pendingQueries THEN pendingQueries[cacheKey] ELSE <<>>

\* processBatchQueue without pendingQueries.delete: the groups outlive the flush
processBatchQueueKeepsGroups ==
  /\ inflight' = inflight \cup
       { NewQuery("query", k, batchQueue[k].useCache, pendingCallbacks(k),
                  flushes + 1) : k \in DOMAIN batchQueue }
  /\ pendingQueries' = pendingQueries
  /\ batchQueue' = <<>>
  /\ batchTimeout' = NULL
  /\ flushes' = flushes + 1

\* processBatchQueue without the reset of batchTimeout
processBatchQueueKeepsTimeout ==
  /\ inflight' = inflight \cup
       { NewQuery("query", k, batchQueue[k].useCache, pendingCallbacks(k),
                  flushes + 1) : k \in DOMAIN batchQueue }
  /\ pendingQueries' = Remove(pendingQueries, DOMAIN batchQueue)
  /\ batchQueue' = <<>>
  /\ batchTimeout' = batchTimeout
  /\ flushes' = flushes + 1

(* processBatchQueue up to its awaits: the queue is emptied, the timer      *)
(* handle reset, and for every queued key its group is taken out of        *)
(* pendingQueries and its queryFn is started, which issues                 *)
(* getCollection(collection, queryParams, false), one Data Store query.    *)
(* (The queue's iteration order only orders these issues within the step.) *)
processBatchQueue ==
  /\ inflight' = inflight \cup
       { NewQuery("query", k, batchQueue[k].useCache, pendingCallbacks(k),
                  flushes + 1) : k \in DOMAIN batchQueue }
  /\ pendingQueries' = Remove(pendingQueries, DOMAIN batchQueue)
  /\ batchQueue' = <<>>
  /\ batchTimeout' = NULL
  /\ flushes' = flushes + 1

\* the callback safeSetTimeout wraps: the timer leaves the registry, then runs
BatchTimerFire ==
  /\ timeouts[BatchTimer] > 0
  /\ timeouts' = [timeouts EXCEPT ![BatchTimer] = @ - 1]
  /\ processBatchQueue
  /\ settled' = {}
  /\ UNCHANGED <<now, cache, store, nCalls, waiting>>

----------------------------------------------------------------------------
(* Query Executor *)

\* the call returns the cached data at once
ReturnCached(caller, cachedData) ==
  /\ settled' = {Hit(caller, cachedData)}
  /\ UNCHANGED <<waiting, inflight, pendingQueries, batchQueue, batchTimeout,
                 timeouts>>

\* a direct read: the Data Store call is issued before the first await
IssueDirect(kind, caller) ==
  /\ waiting' = (caller.id :> caller) @@ waiting
  /\ inflight' = inflight \cup
        {NewQuery(kind, caller.key, caller.useCache, <<caller.id>>, 0)}
  /\ settled' = {}
  /\ UNCHANGED <<pendingQueries, batchQueue, batchTimeout, timeouts>>

\* smartQuery that consults the cache whatever useCache says
smartQueryReadsCache(collection, queryParams, useCache, useBatching) ==
  LET cacheKey == generateCacheKey(collection, queryParams)
      cachedData == getFromCache(cacheKey)
      caller == Caller(nCalls + 1, "smartQuery", <<collection, queryParams>>,
                       cacheKey, useCache, useBatching)
  IN /\ nCalls < MaxCalls
     /\ nCalls' = nCalls + 1
     /\ cache' = cacheAfterGet(cacheKey)
     /\ IF cachedData # NULL
        THEN ReturnCached(caller, cachedData)
        ELSE IF useBatching
             THEN /\ waiting' = (caller.id :> caller) @@ waiting
                  /\ queueQuery(cacheKey, useCache, caller.id)
                  /\ settled' = {}
                  /\ UNCHANGED inflight
             ELSE IssueDirect("query", caller)
     /\ UNCHANGED <<now, store, flushes>>

smartQuery(collection, queryParams, useCache, useBatching) ==
  LET cacheKey == generateCacheKey(collection, queryParams)
      cachedData == IF useCache THEN getFromCache(cacheKey) ELSE NULL
      caller == Caller(nCalls + 1, "smartQuery", <<collection, queryParams>>,
                       cacheKey, useCache, useBatching)
  IN /\ nCalls < MaxCalls
     /\ nCalls' = nCalls + 1
     /\ cache' = IF useCache THEN cacheAfterGet(cacheKey) ELSE cache
     /\ IF cachedData # NULL
        THEN ReturnCached(caller, cachedData)
        ELSE IF useBatching
             THEN /\ waiting' = (caller.id :> caller) @@ waiting
                  /\ queueQuery(cacheKey, useCache, caller.id)
                  /\ settled' = {}
                  /\ UNCHANGED inflight
             ELSE IssueDirect("query", caller)
     /\ UNCHANGED <<now, store, flushes>>

getCollection(collection, queryParams, useCache) ==
  LET cacheKey == generateCacheKey(collection, queryParams)
      cachedData == IF useCache THEN getFromCache(cacheKey) ELSE NULL
      caller == Caller(nCalls + 1, "getCollection", <<collection, queryParams>>,
                       cacheKey, useCache, FALSE)
  IN /\ nCalls < MaxCalls
     /\ nCalls' = nCalls + 1
     /\ cache' = IF useCache THEN cacheAfterGet(cacheKey) ELSE cache
     /\ IF cachedData # NULL
        THEN ReturnCached(caller, cachedData)
        ELSE IssueDirect("query", caller)
     /\ UNCHANGED <<now, store, flushes>>

getDocument(collection, docId, useCache) ==
  LET cacheKey == generateCacheKey(collection, << <<"docId", docId>> >>)
      cachedData == IF useCache THEN getFromCache(cacheKey) ELSE NULL
      caller == Caller(nCalls + 1, "getDocument",
                       <<collection, << <<"docId", docId>> >> >>,
                       cacheKey, useCache, FALSE)
  IN /\ nCalls < MaxCalls
     /\ nCalls' = nCalls + 1
     /\ cache' = IF useCache THEN cacheAfterGet(cacheKey) ELSE cache
     /\ IF cachedData # NULL
        THEN ReturnCached(caller, cachedData)
        ELSE IssueDirect("get", caller)
     /\ UNCHANGED <<now, store, flushes>>

\* the callers the continuation of the read q settles
Waiters(q) == {q.waiters[i] : i \in 1..Len(q.waiters)}

(* The Data Store read q succeeds: the continuation caches the result when  *)
(* the read was started with useCache, then returns it (a direct call) or   *)
(* resolves every waiter of the group (a batched query).                   *)
StoreSucceed(q, v) ==
  LET result == StoreResult(q, v)
  IN /\ inflight' = inflight \ {q}
     /\ cache' = IF q.useCache THEN setCache(cache, q.key, result) ELSE cache
     /\ settled' = {Answer(waiting[id], q, "ok", result) :
                      id \in Waiters(q) \cap DOMAIN waiting}
     /\ waiting' = Remove(waiting, Waiters(q))
     /\ UNCHANGED <<now, store, nCalls, flushes, pendingQueries, batchQueue,
                    batchTimeout, timeouts>>

\* a failure that also leaves a null entry in the cache
StoreFailPoisons(q) ==
  /\ inflight' = inflight \ {q}
  /\ settled' = {Answer(waiting[id], q, "err", StoreError(q)) :
                   id \in Waiters(q) \cap DOMAIN waiting}
  /\ waiting' = Remove(waiting, Waiters(q))
  /\ cache' = setCache(cache, q.key, NULL)
  /\ UNCHANGED <<now, store, nCalls, flushes, pendingQueries,
                 batchQueue, batchTimeout, timeouts>>

\* a failure whose error is cached like a result (setCache in a finally)
StoreFailCachesError(q) ==
  /\ inflight' = inflight \ {q}
  /\ settled' = {Answer(waiting[id], q, "err", StoreError(q)) :
                   id \in Waiters(q) \cap DOMAIN waiting}
  /\ waiting' = Remove(waiting, Waiters(q))
  /\ cache' = IF q.useCache THEN setCache(cache, q.key, StoreError(q)) ELSE cache
  /\ UNCHANGED <<now, store, nCalls, flushes, pendingQueries,
                 batchQueue, batchTimeout, timeouts>>

\* The Data Store read q throws: the error reaches the caller or the waiters
StoreFail(q) ==
  /\ inflight' = inflight \ {q}
  /\ settled' = {Answer(waiting[id], q, "err", StoreError(q)) :
                   id \in Waiters(q) \cap DOMAIN waiting}
  /\ waiting' = Remove(waiting, Waiters(q))
  /\ UNCHANGED <<now, cache, store, nCalls, flushes, pendingQueries,
                 batchQueue, batchTimeout, timeouts>>

\* an invalidation that drops the whole cache
invalidateCollectionAll(collection) ==
  /\ cache' = Remove(cache, DOMAIN cache)
  /\ inflight' = { IF keyOfCollection(q.key, collection)
                   THEN [q EXCEPT !.inval = TRUE]
                   ELSE q : q \in inflight }
  /\ settled' = {}
  /\ UNCHANGED <<now, store, nCalls, waiting, flushes, pendingQueries,
                 batchQueue, batchTimeout, timeouts>>

invalidateCollection(collection) ==
  /\ cache' = Remove(cache, {k \in DOMAIN cache : keyOfCollection(k, collection)})
  /\ inflight' = { IF keyOfCollection(q.key, collection)
                   THEN [q EXCEPT !.inval = TRUE]
                   ELSE q : q \in inflight }
  /\ settled' = {}
  /\ UNCHANGED <<now, store, nCalls, waiting, flushes, pendingQueries,
                 batchQueue, batchTimeout, timeouts>>

(* A write-side handler: the write is committed in the Data Store and the  *)
(* handler's continuation calls invalidateCollection at once.              *)
writeThenInvalidate(collection) ==
  /\ store[collection] < MaxWrites
  /\ store' = [store EXCEPT ![collection] = @ + 1]
  /\ cache' = Remove(cache, {k \in DOMAIN cache : keyOfCollection(k, collection)})
  /\ inflight' = { IF keyOfCollection(q.key, collection)
                   THEN [q EXCEPT !.inval = TRUE]
                   ELSE q : q \in inflight }
  /\ settled' = {}
  /\ UNCHANGED <<now, nCalls, waiting, flushes, pendingQueries,
                 batchQueue, batchTimeout, timeouts>>

clearCache ==
  /\ cache' = Remove(cache, DOMAIN cache)
  /\ settled' = {}
  /\ UNCHANGED <<now, store, nCalls, waiting, inflight, flushes,
                 pendingQueries, batchQueue, batchTimeout, timeouts>>

----------------------------------------------------------------------------
(* batchGetDocuments *)

Min(a, b) == IF a <= b THEN a ELSE b

\* requests.indexOf(request): the first position holding that object
indexOf(requests, request) ==
  CHOOSE i \in 1..Len(requests) :
    requests[i] = request /\ \A j \in 1..(i - 1) : requests[j] # request

requestKey(request) ==
  generateCacheKey(RequestOf[request][1], << <<"docId", RequestOf[request][2]>> >>)

\* the request is answered by the scan of the cache
servedFromCache(request, useCache) ==
  useCache /\ getFromCache(requestKey(request)) # NULL

\* what the scan leaves in uncachedRequests for the positions from i on
RECURSIVE uncachedRequests(_, _, _)
uncachedRequests(requests, useCache, i) ==
  IF i > Len(requests) THEN <<>>
  ELSE (IF servedFromCache(requests[i], useCache)
        THEN <<>>
        ELSE << [request |-> requests[i],
                 originalIndex |-> indexOf(requests, requests[i])] >>)
       \o uncachedRequests(requests, useCache, i + 1)

(* what the scan leaves in results: a JavaScript array, as the function     *)
(* from the indices that were assigned to their elements                   *)
cachedResults(requests, useCache) ==
  [ix \in {indexOf(requests, requests[i]) :
             i \in {j \in 1..Len(requests) :
                      servedFromCache(requests[j], useCache)}}
     |-> getFromCache(requestKey(requests[ix]))]

\* the cache after the scan: getFromCache deleted the expired entries it met
cacheAfterScan(requests, useCache) ==
  IF useCache
  THEN Remove(cache, {k \in {requestKey(requests[i]) : i \in 1..Len(requests)} :
                        k \in DOMAIN cache /\ ~isCacheValid(cache[k])})
  ELSE cache

\* one multi-get holding every uncached request
batchSizeUnbounded(uncached) == Len(uncached)

\* Math.min(this.MAX_BATCH_SIZE, uncachedRequests.length)
batchSize(uncached) == Min(MAX_BATCH_SIZE, Len(uncached))

\* uncachedRequests.slice(i, i + batchSize), i counted from 0
slice(uncached, i) ==
  SubSeq(uncached, i + 1, Min(i + batchSize(uncached), Len(uncached)))

\* doc.exists ? { id: doc.id, ...doc.data() } : null
docResult(request) ==
  IF RequestOf[request] \in ExistingDocs
  THEN <<"doc", RequestOf[request][2], store[RequestOf[request][1]]>>
  ELSE NULL

(* results[request.originalIndex] = values[n], for the n-th request of the  *)
(* batch                                                                   *)
assignResults(results, batch, values) ==
  LET assigned == {batch[n].originalIndex : n \in 1..Len(batch)}
  IN [ix \in DOMAIN results \cup assigned |->
        IF ix \in assigned
        THEN values[CHOOSE n \in 1..Len(batch) : batch[n].originalIndex = ix]
        ELSE results[ix]]

\* setCache for every document of the batch, in order
RECURSIVE cacheDocs(_, _)
cacheDocs(c, batch) ==
  IF batch = <<>> THEN c
  ELSE cacheDocs(setCache(c, requestKey(Head(batch).request),
                          docResult(Head(batch).request)),
                 Tail(batch))

\* the db.getAll(...docRefs) call of one batch, in flight
GetAll(id, useCache, batch) ==
  [kind |-> "getAll", key |-> NULL, useCache |-> useCache, waiters |-> <<id>>,
   snap |-> 0, flush |-> 0, inval |-> FALSE, batch |-> batch]

\* the array batchGetDocuments returns
Returned(call, src) ==
  [call |-> call, st |-> "ok", val |-> call.results, src |-> src,
   qkey |-> NULL, qflush |-> 0]

(* batchGetDocuments up to its first await: the scan of the cache, then the *)
(* first multi-get, or the return when nothing is uncached.                *)
batchGetDocuments(requests, useCache) ==
  LET uncached == uncachedRequests(requests, useCache, 1)
      call == [id |-> nCalls + 1, op |-> "batchGetDocuments", args |-> requests,
               key |-> NULL, useCache |-> useCache, batched |-> FALSE,
               win |-> flushes,
               results |-> cachedResults(requests, useCache),
               uncached |-> uncached, i |-> 0,
               multiGets |-> IF uncached = <<>> THEN <<>>
                             ELSE <<slice(uncached, 0)>>,
               failed |-> {}]
  IN /\ nCalls < MaxCalls
     /\ nCalls' = nCalls + 1
     /\ cache' = cacheAfterScan(requests, useCache)
     /\ IF uncached = <<>>
        THEN /\ settled' = {Returned(call, "cache")}
             /\ UNCHANGED <<waiting, inflight>>
        ELSE /\ waiting' = (call.id :> call) @@ waiting
             /\ inflight' = inflight \cup
                   {GetAll(call.id, useCache, slice(uncached, 0))}
             /\ settled' = {}
     /\ UNCHANGED <<now, store, flushes, pendingQueries, batchQueue,
                    batchTimeout, timeouts>>

(* after the multi-get q of the call (now in the state `call`): the loop    *)
(* issues the next batch, or the call returns its results                  *)
nextBatch(q, call) ==
  LET i == call.i + batchSize(call.uncached)
  IN IF i < Len(call.uncached)
     THEN /\ waiting' =
               [waiting EXCEPT ![call.id] =
                  [call EXCEPT !.i = i,
                               !.multiGets = Append(@, slice(call.uncached, i))]]
          /\ inflight' = (inflight \ {q}) \cup
                {GetAll(call.id, call.useCache, slice(call.uncached, i))}
          /\ settled' = {}
     ELSE /\ waiting' = Remove(waiting, {call.id})
          /\ inflight' = inflight \ {q}
          /\ settled' = {Returned(call, "store")}

\* db.getAll resolves: every document is written to results and cached
GetAllSucceed(q) ==
  LET call == waiting[q.waiters[1]]
      docs == [n \in 1..Len(q.batch) |-> docResult(q.batch[n].request)]
  IN /\ q.kind = "getAll"
     /\ cache' = IF q.useCache THEN cacheDocs(cache, q.batch) ELSE cache
     /\ nextBatch(q, [call EXCEPT
                        !.results = assignResults(@, q.batch, docs)])
     /\ UNCHANGED <<now, store, nCalls, flushes, pendingQueries, batchQueue,
                    batchTimeout, timeouts>>

\* db.getAll throws: the catch writes null for every request of the batch
GetAllFail(q) ==
  LET call == waiting[q.waiters[1]]
      nulls == [n \in 1..Len(q.batch) |-> NULL]
  IN /\ q.kind = "getAll"
     /\ nextBatch(q, [call EXCEPT
                        !.results = assignResults(@, q.batch, nulls),
                        !.failed = @ \cup {q.batch[n].originalIndex :
                                             n \in 1..Len(q.batch)}])
     /\ UNCHANGED <<now, cache, store, nCalls, flushes, pendingQueries,
                    batchQueue, batchTimeout, timeouts>>

----------------------------------------------------------------------------
(* Cleanup Scheduler *)

(* The cacheCleanup timer fires: cleanup(), then startCacheCleanup(), which *)
(* runs cleanup() again and schedules the next timer.                       *)
CleanupTimerFire ==
  /\ timeouts[CleanupTimer] > 0
  /\ cache' = cleanup(cleanup(cache))
  /\ timeouts' = [timeouts EXCEPT ![CleanupTimer] = (@ - 1) + 1]
  /\ settled' = {}
  /\ UNCHANGED <<now, store, nCalls, waiting, inflight, flushes,
                 pendingQueries, batchQueue, batchTimeout>>

(* The cacheCleanup timer fires and a scan throws (on an entry without a    *)
(* timestamp that other code put into the exported cache map, or in the    *)
(* console call that reports the evictions): the wrapper safeSetTimeout    *)
(* put around the callback catches and logs the exception, and the rest of *)
(* the callback, with the safeSetTimeout call of startCacheCleanup, is     *)
(* skipped. The scan threw before its deletions or after them. A scan of   *)
(* an empty cache visits no entry and reports nothing.                     *)
CleanupScanThrows ==
  /\ timeouts[CleanupTimer] > 0
  /\ cache # <<>>
  /\ cache' \in {cache, cleanup(cache)}
  /\ timeouts' = [timeouts EXCEPT ![CleanupTimer] = @ - 1]
  /\ settled' = {}
  /\ UNCHANGED <<now, store, nCalls, waiting, inflight, flushes,
                 pendingQueries, batchQueue, batchTimeout>>

----------------------------------------------------------------------------
(* Environment *)

\* time passes
Tick ==
  /\ now < MaxTime
  /\ now' = now + 1
  /\ settled' = {}
  /\ UNCHANGED <<cache, store, nCalls, waiting, inflight, flushes,
                 pendingQueries, batchQueue, batchTimeout, timeouts>>

\* a write-side handler changes a collection in the Data Store
StoreWrite(collection) ==
  /\ store[collection] < MaxWrites
  /\ store' = [store EXCEPT ![collection] = @ + 1]
  /\ settled' = {}
  /\ UNCHANGED <<now, cache, nCalls, waiting, inflight, flushes,
                 pendingQueries, batchQueue, batchTimeout, timeouts>>

\* TimerManager.clearAll, exported as clearAllTimers and run on beforeunload
clearAllTimers ==
  /\ timeouts' = [n \in TimerNames |-> 0]
  /\ settled' = {}
  /\ UNCHANGED <<now, cache, store, nCalls, waiting, inflight, flushes,
                 pendingQueries, batchQueue, batchTimeout>>

----------------------------------------------------------------------------
(* The state after `new BatchQueryService()`: empty maps, and the first     *)
(* cleanup has run and scheduled its timer.                                *)
Init ==
  /\ now = 0
  /\ cache = <<>>
  /\ pendingQueries = <<>>
  /\ batchQueue = <<>>
  /\ batchTimeout = NULL
  /\ timeouts = [n \in TimerNames |-> IF n = CleanupTimer THEN 1 ELSE 0]
  /\ store = [c \in AllCollections |-> 0]
  /\ nCalls = 0
  /\ waiting = <<>>
  /\ inflight = {}
  /\ flushes = 0
  /\ settled = {}

SmartQueryBatched ==
  \E in \in BatchInputs : smartQuery(in[1], in[2], in[3], TRUE)
SmartQueryCached ==
  \E in \in CachedInputs : smartQuery(in[1], in[2], TRUE, TRUE)
SmartQueryDirect(flags) ==
  \E in \in DirectInputs, useCache \in flags :
    smartQuery(in[1], in[2], useCache, FALSE)
GetCollection(flags) ==
  \E in \in DirectInputs, useCache \in flags :
    getCollection(in[1], in[2], useCache)
GetDocument(flags) ==
  \E in \in DocInputs, useCache \in flags :
    getDocument(in[1], in[2], useCache)
GetCollectionCached == GetCollection({TRUE})
GetDocumentCached == GetDocument({TRUE})
StoreSucceeds ==
  \E q \in inflight : \E v \in q.snap .. store[q.key[1]] : StoreSucceed(q, v)
StoreFails == \E q \in inflight : StoreFail(q)
InvalidateCollection == \E c \in Collections : invalidateCollection(c)
Write == \E c \in Collections : StoreWrite(c)

(* The Batch Coordinator with its callers, the Data Store's answers, the    *)
(* cache invalidations and the timer registry's clearAll.                  *)
Next ==
  \/ SmartQueryBatched
  \/ BatchTimerFire
  \/ StoreSucceeds
  \/ StoreFails
  \/ InvalidateCollection
  \/ clearCache
  \/ clearAllTimers

Spec == Init /\ [][Next]_vars

(* The same without clearAllTimers, under the scheduling the event loop     *)
(* gives: a pending timer fires, and an issued Data Store read is answered. *)
LiveNext ==
  \/ SmartQueryBatched
  \/ BatchTimerFire
  \/ StoreSucceeds
  \/ StoreFails
  \/ InvalidateCollection
  \/ clearCache

LiveSpec ==
  /\ Init
  /\ [][LiveNext]_vars
  /\ WF_vars(BatchTimerFire)
  /\ WF_vars(StoreSucceeds \/ StoreFails)

(* Every action of Next, clearAllTimers included, under the same           *)
(* scheduling: what the event loop guarantees when the registry may be     *)
(* cleared.                                                                *)
CancelSpec ==
  /\ Init
  /\ [][Next]_vars
  /\ WF_vars(BatchTimerFire)
  /\ WF_vars(StoreSucceeds \/ StoreFails)

(* The Cache Store under every kind of read, the passing of time, the       *)
(* cleanup timer and the invalidations.                                    *)
CacheNext ==
  \/ SmartQueryCached
  \/ GetCollectionCached
  \/ GetDocumentCached
  \/ BatchTimerFire
  \/ StoreSucceeds
  \/ InvalidateCollection
  \/ clearCache
  \/ CleanupTimerFire
  \/ Tick

CacheSpec == Init /\ [][CacheNext]_vars

(* The direct (unbatched) reads, with and without the cache, and the Data  *)
(* Store's answers and failures.                                           *)
GetDocumentAny == GetDocument(BOOLEAN)
GetCollectionAny == GetCollection(BOOLEAN)
SmartQueryDirectAny == SmartQueryDirect(BOOLEAN)

DirectNext ==
  \/ GetDocumentAny
  \/ GetCollectionAny
  \/ SmartQueryDirectAny
  \/ StoreSucceeds
  \/ StoreFails

DirectSpec == Init /\ [][DirectNext]_vars

\* batchGetDocuments with its multi-gets, their answers and failures.
BatchGetDocuments ==
  \E in \in BatchGetInputs : batchGetDocuments(in[1], in[2])
GetAllSucceeds == \E q \in inflight : GetAllSucceed(q)
GetAllFails == \E q \in inflight : GetAllFail(q)

BatchGetNext ==
  \/ BatchGetDocuments
  \/ GetAllSucceeds
  \/ GetAllFails

BatchGetSpec == Init /\ [][BatchGetNext]_vars

(* The Cleanup Scheduler: cached document reads fill the cache, time       *)
(* passes, and the cleanup timer fires, with scans that complete and scans *)
(* that throw.                                                             *)
CleanupNext ==
  \/ GetDocumentCached
  \/ StoreSucceeds
  \/ CleanupTimerFire
  \/ CleanupScanThrows
  \/ Tick

CleanupSpec == Init /\ [][CleanupNext]_vars

(* Batched reads whose parameters come in either insertion order, their    *)
(* flushes and answers, and the passing of time.                           *)
SmartQueryKeys == \E in \in KeyInputs : smartQuery(in[1], in[2], TRUE, TRUE)

KeyNext ==
  \/ SmartQueryKeys
  \/ BatchTimerFire
  \/ StoreSucceeds
  \/ StoreFails
  \/ Tick

KeySpec == Init /\ [][KeyNext]_vars

(* The Cleanup Scheduler with scans that complete, beside the timer        *)
(* registry's clearAll.                                                    *)
TimerNext ==
  \/ GetDocumentCached
  \/ StoreSucceeds
  \/ CleanupTimerFire
  \/ Tick
  \/ clearAllTimers

TimerSpec == Init /\ [][TimerNext]_vars

(* Reads of one collection without the cache, direct and batched, while    *)
(* the Data Store is written.                                              *)
(* The cache is filled by batched smartQuery calls that use it; every      *)
(* kind of read is made without it.                                        *)
BypassFlags == {<<TRUE, TRUE>>, <<FALSE, TRUE>>, <<FALSE, FALSE>>}
SmartQueryBypass ==
  \E in \in DirectInputs, flags \in BypassFlags :
    smartQuery(in[1], in[2], flags[1], flags[2])

GetDocumentUncached == getDocument("inquiries", "u1", FALSE)
GetCollectionUncached == GetCollection({FALSE})
WriteInquiries == StoreWrite("inquiries")

BypassNext ==
  \/ SmartQueryBypass
  \/ GetCollectionUncached
  \/ GetDocumentUncached
  \/ BatchTimerFire
  \/ StoreSucceeds
  \/ WriteInquiries

BypassSpec == Init /\ [][BypassNext]_vars

(* Cached smartQuery reads of a collection whose every write is followed   *)
(* by invalidateCollection.                                                *)
WriteThenInvalidate == writeThenInvalidate("inquiries")

StaleNext ==
  \/ SmartQueryCached
  \/ BatchTimerFire
  \/ StoreSucceeds
  \/ WriteThenInvalidate
  \/ Tick

StaleSpec == Init /\ [][StaleNext]_vars

(* Overlapping cached reads of one key, direct and batched, while the Data *)
(* Store is written.                                                       *)
SmartQueryOverlap ==
  \E in \in DirectInputs : smartQuery(in[1], in[2], TRUE, TRUE)

OverlapNext ==
  \/ GetCollectionCached
  \/ SmartQueryOverlap
  \/ BatchTimerFire
  \/ StoreSucceeds
  \/ WriteInquiries

OverlapSpec == Init /\ [][OverlapNext]_vars

(* Document lookups beside collection queries whose queryParams are a      *)
(* docId property.                                                         *)
DocIdQueries == {<<"inquiries", << <<"docId", "u1">> >> >>}
GetCollectionByDocId ==
  \E in \in DocIdQueries : getCollection(in[1], in[2], TRUE)
SmartQueryByDocId ==
  \E in \in DocIdQueries, useBatching \in BOOLEAN :
    smartQuery(in[1], in[2], TRUE, useBatching)

ShareNext ==
  \/ GetDocumentCached
  \/ GetCollectionByDocId
  \/ SmartQueryByDocId
  \/ BatchTimerFire
  \/ StoreSucceeds
  \/ Tick

ShareSpec == Init /\ [][ShareNext]_vars

(* Invalidation among collections whose names share a prefix: batched      *)
(* reads of each collection, their flushes and answers, and invalidations. *)
SmartQueryScoped == \E c \in AllCollections : smartQuery(c, NoParams, TRUE, TRUE)
InvalidateScoped == \E c \in AllCollections : invalidateCollection(c)

ScopeNext ==
  \/ SmartQueryScoped
  \/ BatchTimerFire
  \/ StoreSucceeds
  \/ InvalidateScoped

ScopeSpec == Init /\ [][ScopeNext]_vars

----------------------------------------------------------------------------
(* Properties *)

Members(seq) == {seq[i] : i \in 1..Len(seq)}
\* the pending groups and the reads in flight that hold the caller id as a waiter
GroupsOf(id) == {k \in DOMAIN pendingQueries : id \in Members(pendingQueries[k])}
QueriesOf(id) == {q \in inflight : id \in Waiters(q)}
\* the callers of batched smartQuery calls that are not settled yet
BatchedWaiting == {id \in DOMAIN waiting : waiting[id].batched}
\* the calls a batched Data Store query settled in the last step
BatchedAnswers == {s \in settled : s.src = "store" /\ s.call.batched}

(* C1. Deduplication. Batched smartQuery callers that missed the cache for *)
(* the same key within the same batch window share one pending group with  *)
(* one queued queryFn; the flush of that window issues exactly one Data    *)
(* Store query for the key, with all of them as its waiters; and when that *)
(* query is answered every one of them is settled, with its outcome.       *)
Deduplication ==
  /\ \A i \in BatchedWaiting : \A j \in BatchedWaiting :
       (waiting[i].key = waiting[j].key /\ waiting[i].win = waiting[j].win)
       => \/ /\ waiting[i].win = flushes
             /\ waiting[i].key \in DOMAIN pendingQueries
             /\ waiting[i].key \in DOMAIN batchQueue
             /\ {i, j} \subseteq Members(pendingQueries[waiting[i].key])
          \/ /\ waiting[i].win < flushes
             /\ \E q \in inflight :
                  /\ q.key = waiting[i].key
                  /\ q.flush = waiting[i].win + 1
                  /\ {i, j} \subseteq Waiters(q)
  /\ \A q1 \in inflight : \A q2 \in inflight :
       (q1.flush > 0 /\ q1.flush = q2.flush /\ q1.key = q2.key) => q1 = q2
  /\ \A s \in BatchedAnswers :
       /\ s.qkey = s.call.key
       /\ s.qflush = s.call.win + 1
       /\ \A t \in settled : t.st = s.st /\ t.val = s.val /\ t.qkey = s.qkey
       /\ \A i \in BatchedWaiting :
            ~(waiting[i].key = s.call.key /\ waiting[i].win = s.call.win)
       /\ \A q \in inflight : ~(q.key = s.qkey /\ q.flush = s.qflush)

\* two callers that used the cache were resolved by one query with one result
DeduplicationWitness ==
  \E s \in BatchedAnswers : \E t \in BatchedAnswers :
    /\ s.call.id # t.call.id
    /\ s.call.useCache /\ t.call.useCache
    /\ s.st = "ok" /\ t.st = "ok" /\ s.val = t.val

(* C2. Every caller that waits is a waiter of exactly one pending group or *)
(* of exactly one Data Store read in flight, once, and under its own key;  *)
(* a group has a queued queryFn, so one execution will settle it; a caller *)
(* that was settled is a waiter nowhere (it cannot be settled again, and   *)
(* call ids are never reused); and every call a read settled was settled   *)
(* once, by the read of its own key and, if batched, of its own window.    *)
SettledOnceByOwnQuery ==
  /\ \A id \in DOMAIN waiting :
       /\ id <= nCalls
       /\ Cardinality(GroupsOf(id)) + Cardinality(QueriesOf(id)) = 1
       /\ \A k \in GroupsOf(id) :
            /\ k = waiting[id].key
            /\ k \in DOMAIN batchQueue
            /\ Cardinality({n \in 1..Len(pendingQueries[k]) :
                              pendingQueries[k][n] = id}) = 1
       /\ \A q \in QueriesOf(id) :
            /\ q.key = waiting[id].key
            /\ Cardinality({n \in 1..Len(q.waiters) : q.waiters[n] = id}) = 1
  /\ \A k \in DOMAIN pendingQueries :
       Members(pendingQueries[k]) \subseteq DOMAIN waiting
  /\ \A q \in inflight : Waiters(q) \subseteq DOMAIN waiting
  /\ \A s \in settled :
       /\ s.call.id \notin DOMAIN waiting
       /\ s.src = "store" =>
            /\ s.qkey = s.call.key
            /\ s.call.batched => s.qflush = s.call.win + 1
       /\ \A t \in settled : t.call.id = s.call.id => t = s

(* a waiter is settled by the query of its own window while a later group  *)
(* for the same key is pending                                             *)
SettledOnceWitness ==
  \E s \in BatchedAnswers :
    /\ s.call.key \in DOMAIN pendingQueries
    /\ s.call.id \notin Members(pendingQueries[s.call.key])

\* the step answers the batched query q: its waiters are settled in it
AnswersBatched(q) ==
  /\ q \in inflight /\ q \notin inflight'
  /\ q.flush > 0
  /\ settled' # {}

\* what the answer of q leaves alone: every other read, group and caller
AnswerFrame(q) ==
  /\ inflight' = inflight \ {q}
  /\ {s.call.id : s \in settled'} = Waiters(q)
  /\ \A s \in settled' : s.call = waiting[s.call.id]
  /\ waiting' = Remove(waiting, Waiters(q))
  /\ pendingQueries' = pendingQueries
  /\ batchQueue' = batchQueue

\* q succeeded: every waiter is resolved with the result the store returned
AnswerResolved(q) ==
  \E v \in q.snap .. store[q.key[1]] :
    \A s \in settled' : s.st = "ok" /\ s.val = StoreResult(q, v)

\* q failed: every waiter is rejected with q's error and the cache is not written
AnswerRejected(q) ==
  /\ \A s \in settled' : s.st = "err" /\ s.val = StoreError(q)
  /\ cache' = cache

\* the cache holds the result of q under q's key, written now, and nothing else changed
ResultCached(q) ==
  /\ q.key \in DOMAIN cache'
  /\ cache'[q.key].timestamp = now
  /\ \A s \in settled' : cache'[q.key].data = s.val
  /\ \A k \in DOMAIN cache \ {q.key} : k \in DOMAIN cache' /\ cache'[k] = cache[k]
  /\ DOMAIN cache' = DOMAIN cache \cup {q.key}

\* the flush that issued q also issued the query of another key, still in flight
HasSibling(q) == \E r \in inflight : r.flush = q.flush /\ r.key # q.key

(* C3, as claimed. Whenever the query of one key of a flush is answered     *)
(* while the query of another key of that flush is in flight: on success   *)
(* its waiters, and only they, are resolved with its result and the result *)
(* is in the cache afterwards; on failure its waiters, and only they, are  *)
(* rejected with its error and no cache entry is written.                  *)
IndependentFailure ==
  [][\A q \in inflight : (AnswersBatched(q) /\ HasSibling(q)) =>
       /\ AnswerFrame(q)
       /\ \/ AnswerResolved(q) /\ ResultCached(q)
          \/ AnswerRejected(q)]_vars

(* C3, amended. Whenever a query of a flush is answered, whatever the       *)
(* other queries of that flush did or will do and in whatever order they   *)
(* complete, the same holds, where the result is in the cache afterwards when  *)
(* the smartQuery call that created the key's pending group used the cache *)
(* (its queryFn caches), and the cache is left unchanged when that call    *)
(* was made with useCache = false.                                         *)
IndependentFailureCreatorCaches ==
  [][\A q \in inflight : AnswersBatched(q) =>
       /\ AnswerFrame(q)
       /\ \/ /\ AnswerResolved(q)
             /\ IF q.useCache THEN ResultCached(q) ELSE cache' = cache
          \/ AnswerRejected(q)]_vars

(* In the first flush, the query of one key has succeeded and is cached,   *)
(* and the query of another key has just failed: its waiters are rejected  *)
(* and the cache has no entry for it. (Only batched queries write the      *)
(* cache under Spec.)                                                      *)
IndependentFailureWitness ==
  \E s \in BatchedAnswers :
    /\ s.st = "err"
    /\ s.qflush = 1 /\ flushes = 1
    /\ s.qkey \notin DOMAIN cache
    /\ \E k \in DOMAIN cache : k # s.qkey /\ cache[k].data # NULL

\* a public read call is made in this step
CallMade == nCalls' = nCalls + 1

\* the caller of the call made in this step
NewCaller ==
  IF nCalls' \in DOMAIN waiting'
  THEN waiting'[nCalls']
  ELSE (CHOOSE s \in settled' : s.call.id = nCalls').call

\* the call made in this step is answered from the cache and touches nothing else
ServedFromCache(c) ==
  /\ settled' = {Hit(c, cache[c.key].data)}
  /\ c.id \notin DOMAIN waiting'
  /\ inflight' = inflight
  /\ pendingQueries' = pendingQueries
  /\ batchQueue' = batchQueue
  /\ batchTimeout' = batchTimeout
  /\ timeouts' = timeouts

(* the call made in this step goes to the Data Store: a direct read issues  *)
(* its store call in the step, a batched one is registered for the flush   *)
SentToStore(c) ==
  /\ settled' = {}
  /\ c.id \in DOMAIN waiting'
  /\ IF c.batched
     THEN /\ c.key \in DOMAIN pendingQueries'
          /\ c.id \in Members(pendingQueries'[c.key])
          /\ c.key \in DOMAIN batchQueue'
     ELSE \E q \in inflight' \ inflight : q.key = c.key /\ q.waiters = <<c.id>>

(* C4, as claimed. A smartQuery call with useCache = true whose key has a   *)
(* cache entry younger than CACHE_DURATION returns the cached value,       *)
(* issues no Data Store query and registers nothing with the batch         *)
(* coordinator.                                                            *)
CacheHitAvoidsStore ==
  [][CallMade =>
       LET c == NewCaller
       IN (/\ c.op = "smartQuery" /\ c.useCache
           /\ c.key \in DOMAIN cache
           /\ now - cache[c.key].timestamp < CACHE_DURATION)
          => ServedFromCache(c)]_vars

(* C5. TTL expiry. A read with useCache = true (getDocument, getCollection, *)
(* smartQuery) of a key whose cache entry holds a non-null value written   *)
(* at time T returns that value from the cache, with no Data Store call    *)
(* and the cache unchanged, when now < T + CACHE_DURATION; when            *)
(* now >= T + CACHE_DURATION the entry is treated as absent (and removed)  *)
(* and the read goes to the Data Store.                                    *)
TtlExpiry ==
  [][CallMade =>
       LET c == NewCaller
       IN (c.useCache /\ c.key \in DOMAIN cache /\ cache[c.key].data # NULL)
          => IF now < cache[c.key].timestamp + CACHE_DURATION
             THEN ServedFromCache(c) /\ cache' = cache
             ELSE SentToStore(c) /\ c.key \notin DOMAIN cache']_vars

\* a getDocument hit on an entry in the last time unit of its life
TtlExpiryWitness ==
  \E s \in settled :
    /\ s.src = "cache" /\ s.call.op = "getDocument"
    /\ s.call.key \in DOMAIN cache
    /\ now = cache[s.call.key].timestamp + CACHE_DURATION - 1
    /\ s.val = cache[s.call.key].data

(* C7, as claimed. Negative caching. A getDocument call with useCache =     *)
(* true whose key has a cache entry younger than CACHE_DURATION that holds *)
(* the not-found marker null returns null with no Data Store lookup.       *)
NegativeCaching ==
  [][CallMade =>
       LET c == NewCaller
       IN (/\ c.op = "getDocument" /\ c.useCache
           /\ c.key \in DOMAIN cache
           /\ cache[c.key].data = NULL
           /\ now - cache[c.key].timestamp < CACHE_DURATION)
          => ServedFromCache(c)]_vars

(* C8, as claimed. Early flush. A batch window never holds MAX_BATCH_SIZE   *)
(* distinct keys when control returns to the event loop: the registration  *)
(* that reaches the bound flushes the window at once.                      *)
EarlyFlushAtBound == Cardinality(DOMAIN batchQueue) < MAX_BATCH_SIZE

(* C9, as claimed. Bounded flush without loss. No flush issues the queries  *)
(* of more than MAX_BATCH_SIZE keys, and every key registered before a     *)
(* flush and not executed by it is still queued.                           *)
BoundedFlush ==
  [][flushes' = flushes + 1 =>
       /\ Cardinality(inflight' \ inflight) <= MAX_BATCH_SIZE
       /\ \A k \in DOMAIN batchQueue :
            \/ \E q \in inflight' \ inflight : q.key = k
            \/ k \in DOMAIN batchQueue' /\ k \in DOMAIN pendingQueries']_vars

(* C10, as claimed. A batched query whose collection was invalidated while  *)
(* it was in flight does not write its key into the cache when it resolves. *)
NoRepopulationAfterInvalidate ==
  [][\A q \in inflight : (AnswersBatched(q) /\ q.inval) =>
       (q.key \in DOMAIN cache' =>
          q.key \in DOMAIN cache /\ cache'[q.key] = cache[q.key])]_vars

(* C6. Liveness of the batch window. When timers are not cleared, a pending *)
(* timer fires and an issued Data Store read is answered, every caller     *)
(* registered by queueQuery is eventually resolved or rejected.            *)
BatchWindowLiveness ==
  \A id \in 1..MaxCalls :
    (id \in DOMAIN waiting /\ waiting[id].batched) ~> (id \notin DOMAIN waiting)

\* a caller registered in a second window, after the first one was flushed
BatchWindowLivenessWitness ==
  \E s \in BatchedAnswers : s.qflush = 2 /\ s.call.win = 1

(* C11, as claimed. Collapse of in-flight reads. At every instant at most   *)
(* one Data Store query issued by a flush is in flight per canonical key.  *)
OneInFlightPerKey ==
  \A q1 \in inflight : \A q2 \in inflight :
    (q1.flush > 0 /\ q2.flush > 0 /\ q1.key = q2.key) => q1 = q2

\* the flushed query of c's key that is still unanswered when c is made
FlushedInFlight(c) == {q \in inflight : q.flush > 0 /\ q.key = c.key}

(* C12, as claimed. Group lifetime ends at flush. A flush leaves no pending *)
(* group and no batchQueue entry for any key it flushes; a smartQuery miss *)
(* for a key whose flushed query has not resolved yet creates a fresh      *)
(* group holding only that caller, with a queued queryFn, joins no read in *)
(* flight, and schedules a batch timer if none is pending; and a batched   *)
(* caller is settled by the query of the flush that follows its own        *)
(* registration, never by an earlier one.                                  *)
GroupLifetime ==
  [][/\ flushes' = flushes + 1 =>
          \A k \in DOMAIN batchQueue :
            k \notin DOMAIN pendingQueries' /\ k \notin DOMAIN batchQueue'
     /\ CallMade =>
          LET c == NewCaller
          IN (c.batched /\ c.id \in DOMAIN waiting' /\ FlushedInFlight(c) # {}
              /\ c.key \notin DOMAIN pendingQueries)
             => /\ pendingQueries'[c.key] = <<c.id>>
                /\ c.key \in DOMAIN batchQueue'
                /\ inflight' = inflight
                /\ timeouts[BatchTimer] = 0 => timeouts'[BatchTimer] = 1
     /\ \A s \in settled' :
          (s.src = "store" /\ s.call.batched) => s.qflush = s.call.win + 1]_vars

\* invalidateCollection leaves the groups, the queue, the timers and the callers alone
InvalidateFrame ==
  /\ UNCHANGED <<pendingQueries, batchQueue, batchTimeout, timeouts, waiting>>
  /\ {q.key : q \in inflight'} = {q.key : q \in inflight}

Properties == { <<"status", "new">>, <<"limit", "10">>, <<"docId", "u2">> }
\* every queryParams object over them, in every insertion order
ParamBags ==
  { p \in UNION { [1..n -> Properties] : n \in 0..Cardinality(Properties) } :
      \A i \in 1..Len(p) : \A j \in 1..Len(p) : p[i][1] = p[j][1] => i = j }
\* the same parameter names with the same values
sameProperties(p1, p2) == SeqToSet(p1) = SeqToSet(p2)
\* two calls that differ at most in the order of their parameters
sameQuery(c1, c2) ==
  c1.args[1] = c2.args[1] /\ sameProperties(c1.args[2], c2.args[2])

\* generateCacheKey is the same for every insertion order of the same parameters
KeyIgnoresOrder ==
  \A p1 \in ParamBags : \A p2 \in ParamBags : \A c \in AllCollections :
    sameProperties(p1, p2) => generateCacheKey(c, p1) = generateCacheKey(c, p2)

(* C14. Canonical key stability. generateCacheKey gives one key to all     *)
(* queryParams with the same top-level names and values, in whatever order *)
(* they were inserted; so batched smartQuery calls that differ only in     *)
(* parameter order wait in one pending group (or for one Data Store query) *)
(* per window, and the cache holds one entry for them.                     *)
CanonicalKey ==
  /\ KeyIgnoresOrder
  /\ \A i \in BatchedWaiting : \A j \in BatchedWaiting :
       (sameQuery(waiting[i], waiting[j]) /\ waiting[i].win = waiting[j].win)
       => /\ waiting[i].key = waiting[j].key
          /\ \/ /\ waiting[i].key \in DOMAIN pendingQueries
                /\ {i, j} \subseteq Members(pendingQueries[waiting[i].key])
             \/ \E q \in inflight : {i, j} \subseteq Waiters(q)
  /\ \A k1 \in DOMAIN pendingQueries \cup DOMAIN cache :
       \A k2 \in DOMAIN pendingQueries \cup DOMAIN cache :
         (k1[1] = k2[1] /\ sameProperties(k1[2], k2[2])) => k1 = k2
  /\ \A s \in settled : \A k \in DOMAIN cache :
       (s.call.args[1] = k[1] /\ sameProperties(s.call.args[2], k[2]))
       => k = s.call.key

(* two callers whose parameters were inserted in different orders share a   *)
(* pending group                                                           *)
CanonicalKeyWitness ==
  \E k \in DOMAIN pendingQueries :
    \E i \in Members(pendingQueries[k]) : \E j \in Members(pendingQueries[k]) :
      /\ waiting[i].args[2] # waiting[j].args[2]
      /\ sameProperties(waiting[i].args[2], waiting[j].args[2])

(* C15. Direct-call failure. When the Data Store call of a getDocument,     *)
(* getCollection or unbatched smartQuery call throws, the call (and no     *)
(* other) is rejected with the error the store threw, and the step writes  *)
(* nothing to the cache.                                                   *)
DirectFailure ==
  [][\A q \in inflight :
       (q.flush = 0 /\ q \notin inflight' /\ \E s \in settled' : s.st = "err")
       => /\ Len(q.waiters) = 1
          /\ settled' = {Answer(waiting[q.waiters[1]], q, "err", StoreError(q))}
          /\ waiting[q.waiters[1]].key = q.key
          /\ waiting' = Remove(waiting, Waiters(q))
          /\ inflight' = inflight \ {q}
          /\ cache' = cache]_vars

(* an unbatched smartQuery that uses the cache was rejected; its key has no *)
(* entry, and the entry another call wrote is still there                  *)
DirectFailureWitness ==
  \E s \in settled :
    /\ s.st = "err" /\ s.src = "store" /\ s.qflush = 0
    /\ s.call.op = "smartQuery" /\ s.call.useCache
    /\ s.call.key \notin DOMAIN cache
    /\ cache # <<>>

\* the batchGetDocuments calls that returned in the last step
BatchGetReturns == {s \in settled : s.call.op = "batchGetDocuments"}

(* C16, as claimed. Store errors in batchGetDocuments are surfaced. A call  *)
(* one of whose multi-gets threw does not return normally with null, the   *)
(* not-found value, at the positions of the failed requests.               *)
SurfacedStoreErrors ==
  \A s \in BatchGetReturns :
    s.call.failed # {} =>
      \/ s.st = "err"
      \/ \A ix \in s.call.failed : ix \in DOMAIN s.val /\ s.val[ix] # NULL

(* C17, as claimed. batchGetDocuments alignment. The returned array has    *)
(* the length of the request sequence, and its element at every index is   *)
(* the document of the request at that index, or null.                     *)
Alignment ==
  \A s \in BatchGetReturns :
    /\ DOMAIN s.val = 1..Len(s.call.args)
    /\ \A i \in DOMAIN s.val :
         IF s.val[i] = NULL THEN TRUE
         ELSE /\ s.val[i][1] = "doc"
              /\ s.val[i][2] = RequestOf[s.call.args[i]][2]

RECURSIVE Flatten(_)
Flatten(seqs) == IF seqs = <<>> THEN <<>> ELSE Head(seqs) \o Flatten(Tail(seqs))

\* the positions of the requests the cache does not answer
Misses(requests, useCache) ==
  {i \in 1..Len(requests) :
     ~(/\ useCache
       /\ requestKey(requests[i]) \in DOMAIN cache
       /\ now - cache[requestKey(requests[i])].timestamp < CACHE_DURATION
       /\ cache[requestKey(requests[i])].data # NULL)}

(* C18. batchGetDocuments chunking. The uncached requests of a call are     *)
(* its m cache misses, each once; every multi-get the call issues carries  *)
(* the next at most MAX_BATCH_SIZE of them; and when the call returns it   *)
(* has issued ceil(m / MAX_BATCH_SIZE) multi-gets (none when m = 0) that,  *)
(* put end to end, are exactly its misses.                                 *)
ChunkedMultiGet ==
  [][/\ CallMade =>
          LET c == NewCaller
              misses == Misses(c.args, c.useCache)
          IN c.op = "batchGetDocuments" =>
               /\ Len(c.uncached) = Cardinality(misses)
               /\ \A r \in DOMAIN RequestOf :
                    Cardinality({n \in 1..Len(c.uncached) :
                                   c.uncached[n].request = r})
                    = Cardinality({i \in misses : c.args[i] = r})
               /\ misses = {} => inflight' = inflight
     /\ \A q \in inflight' \ inflight :
          q.kind = "getAll" =>
            LET c == waiting'[q.waiters[1]]
            IN /\ q.batch = c.multiGets[Len(c.multiGets)]
               /\ Len(q.batch) >= 1 /\ Len(q.batch) <= MAX_BATCH_SIZE
               /\ Cardinality({r \in inflight' : r.kind = "getAll"
                                                 /\ r.waiters = q.waiters}) = 1
     /\ \A s \in settled' :
          s.call.op = "batchGetDocuments" =>
            LET m == Len(s.call.uncached)
            IN /\ Len(s.call.multiGets) =
                    (m + MAX_BATCH_SIZE - 1) \div MAX_BATCH_SIZE
               /\ Flatten(s.call.multiGets) = s.call.uncached
               /\ \A n \in 1..Len(s.call.multiGets) :
                    Len(s.call.multiGets[n]) <= MAX_BATCH_SIZE]_vars

\* a call with three misses returned after two multi-gets
ChunkedMultiGetWitness ==
  \E s \in BatchGetReturns :
    /\ Len(s.call.uncached) = MAX_BATCH_SIZE + 1
    /\ Len(s.call.multiGets) = 2
    /\ s.call.failed = {}

(* C19, as claimed. The cleanup loop survives a failing scan: a cleanup     *)
(* timer is pending in every state, after any number of scans that threw.  *)
CleanupTimerPending == timeouts[CleanupTimer] >= 1

(* C20. Sweep postcondition. After a cleanup scan the cache holds no entry  *)
(* of age >= CACHE_DURATION, every entry of age < CACHE_DURATION is still  *)
(* there with its value and timestamp, nothing was added; and when the     *)
(* cleanup timer fires on an empty cache the scan does not throw and       *)
(* leaves the cache empty.                                                 *)
SweepPostcondition ==
  [][/\ CleanupTimerFire =>
          /\ \A k \in DOMAIN cache' : now - cache'[k].timestamp < CACHE_DURATION
          /\ \A k \in DOMAIN cache :
               now - cache[k].timestamp < CACHE_DURATION
               => k \in DOMAIN cache' /\ cache'[k] = cache[k]
          /\ DOMAIN cache' \subseteq DOMAIN cache
     /\ (timeouts[CleanupTimer] > 0 /\ cache = <<>>) =>
          /\ ENABLED CleanupTimerFire
          /\ ~ENABLED CleanupScanThrows
          /\ CleanupTimerFire => cache' = <<>>]_vars

(* the only call made was answered by the store and cached, and the cache   *)
(* is empty again with the cleanup timer still pending: a scan that        *)
(* completed evicted the entry (no read, invalidation or clearCache did)   *)
SweepPostconditionWitness ==
  /\ nCalls = 1 /\ waiting = <<>> /\ inflight = {}
  /\ now >= CACHE_DURATION
  /\ cache = <<>>
  /\ timeouts[CleanupTimer] >= 1

(* C21, as claimed. Cleanup recurrence. While scans do not throw, exactly   *)
(* one cleanup timer is pending in every state, never zero and never more  *)
(* than one.                                                               *)
OneCleanupTimer == timeouts[CleanupTimer] = 1

(* C22, as claimed. No cancellation. A scheduled batch window is never      *)
(* cancelled, whatever is called on the timer registry: once the batch     *)
(* timer is scheduled, processBatchQueue runs for that window and every    *)
(* caller waiting in it is settled.                                        *)
NoCancellation ==
  /\ (batchTimeout # NULL) ~> (batchTimeout = NULL)
  /\ \A id \in 1..MaxCalls :
       (GroupsOf(id) # {}) ~> (id \notin DOMAIN waiting)

(* C23, as claimed. Cache population on batched success. Whenever a batched *)
(* smartQuery made with useCache = true is resolved by its flushed query,  *)
(* the cache holds the resolved result under the call's key at that        *)
(* moment, whichever caller created the group and with whatever useCache.  *)
CachedOnBatchedSuccess ==
  \A s \in BatchedAnswers :
    (s.st = "ok" /\ s.call.useCache) =>
      /\ s.call.key \in DOMAIN cache
      /\ cache[s.call.key].data = s.val
      /\ cache[s.call.key].timestamp = now

(* C24. Cache bypass. A getDocument, getCollection or smartQuery call made  *)
(* with useCache = false neither reads nor changes the cache: a direct     *)
(* call issues its own Data Store read in the step of the call, at the     *)
(* store's version of that moment; a batched smartQuery is registered with *)
(* the group of the open window, never attached to a read already in       *)
(* flight, and the flush issues that read later, at the store's version of *)
(* the flush. The call is settled by that read only, with what the store   *)
(* answers at that version or a later one.                                 *)
CacheBypass ==
  [][/\ CallMade =>
          LET c == NewCaller
          IN ~c.useCache =>
               /\ cache' = cache
               /\ SentToStore(c)
               /\ \A q \in inflight' : c.id \in Waiters(q) => q \notin inflight
               /\ \A q \in inflight' \ inflight :
                    q.snap = store[q.key[1]] /\ q.flush = 0
     /\ flushes' # flushes =>
          \A q \in inflight' \ inflight :
            q.snap = store[q.key[1]] /\ q.flush = flushes'
     /\ \A s \in settled' :
          ~s.call.useCache =>
            /\ s.src = "store"
            /\ \E q \in inflight \ inflight' :
                 /\ s.call.id \in Waiters(q)
                 /\ s.qkey = q.key /\ s.qflush = q.flush
                 /\ IF s.call.batched
                    THEN q.flush > s.call.win
                    ELSE q.flush = 0 /\ q.waiters = <<s.call.id>>
                 /\ \E v \in q.snap .. store[q.key[1]] :
                      s.val = StoreResult(q, v)]_vars

(* two batched callers without the cache shared a group and are resolved   *)
(* with the store's answer while the cache holds a different, valid entry  *)
(* for their key                                                           *)
CacheBypassWitness ==
  \E s \in BatchedAnswers : \E t \in BatchedAnswers :
    /\ s.call.id # t.call.id
    /\ ~s.call.useCache /\ ~t.call.useCache
    /\ s.st = "ok"
    /\ s.call.key \in DOMAIN cache
    /\ isCacheValid(cache[s.call.key])
    /\ cache[s.call.key].data # s.val

\* a smartQuery call answered from the cache with data older than the store's
StaleRead(s) ==
  /\ s.src = "cache"
  /\ s.call.op = "smartQuery" /\ s.call.useCache
  /\ s.val[3] < store[s.call.args[1]]

(* C25, as claimed. Bounded staleness after a write. Where every write to a *)
(* collection is followed by invalidateCollection, at most one smartQuery  *)
(* read with useCache = true returns data that predates the write before   *)
(* the next invalidation: a read that returned such data is never followed *)
(* by another one of the same key.                                         *)
AtMostOneStaleRead ==
  [][\A s \in settled : \A t \in settled' :
       (StaleRead(s) /\ t.call.key = s.call.key /\ t.call.id # s.call.id)
       => (t.src = "cache" => t.val[3] >= store'[t.call.args[1]])]_vars

(* C26, as claimed. Single batch timer. In every state at most one batch    *)
(* timer is pending, and one is pending exactly when batchQueue is not     *)
(* empty: no registered key is left without a timer that will flush it.    *)
SingleBatchTimer ==
  /\ timeouts[BatchTimer] <= 1
  /\ timeouts[BatchTimer] = 1 <=> DOMAIN batchQueue # {}

(* C27. Frame of getFromCache. A read that consults the cache for key k:    *)
(* when k's entry is CACHE_DURATION old or older, removes exactly that     *)
(* entry and finds nothing (the read goes on to the Data Store); when the  *)
(* entry is younger, gets the stored data and leaves the cache as it is,   *)
(* the entry's timestamp included; when k has no entry, changes nothing.   *)
(* The entries of the other keys are never touched.                        *)
GetFromCacheFrame ==
  [][/\ \A k \in DOMAIN cache :
          getFromCache(k) = IF now - cache[k].timestamp < CACHE_DURATION
                            THEN cache[k].data
                            ELSE NULL
     /\ CallMade =>
          LET c == NewCaller
              k == c.key
          IN c.useCache =>
               /\ \A j \in DOMAIN cache \ {k} :
                    j \in DOMAIN cache' /\ cache'[j] = cache[j]
               /\ DOMAIN cache' \subseteq DOMAIN cache
               /\ IF k \notin DOMAIN cache
                  THEN cache' = cache /\ SentToStore(c)
                  ELSE IF now - cache[k].timestamp >= CACHE_DURATION
                       THEN k \notin DOMAIN cache' /\ SentToStore(c)
                       ELSE /\ cache' = cache
                            /\ IF cache[k].data # NULL
                               THEN ServedFromCache(c)
                               ELSE SentToStore(c)]_vars

(* a read was answered from an entry written at an earlier time, which     *)
(* keeps its timestamp, beside the entry of another key                    *)
GetFromCacheFrameWitness ==
  \E s \in settled :
    /\ s.src = "cache"
    /\ s.call.key \in DOMAIN cache
    /\ cache[s.call.key].timestamp < now
    /\ cache[s.call.key].data = s.val
    /\ \E j \in DOMAIN cache : j # s.call.key

(* the read that settled s was issued after the read q: two direct reads   *)
(* are issued in the order of their calls, two batched ones in the order   *)
(* of their flushes                                                        *)
IssuedAfter(s, q) ==
  \/ s.qflush = 0 /\ q.flush = 0 /\ s.call.id > q.waiters[1]
  \/ q.flush > 0 /\ s.qflush > q.flush

(* C28, as claimed. Overlapping Data Store calls for one key. When two      *)
(* successful reads of one key that write the cache overlap, after both    *)
(* have completed the cache holds the result of the one issued later,      *)
(* whatever the order of completion: when the later-issued read has just   *)
(* completed and the earlier-issued one completes next, the cache still    *)
(* holds the later-issued read's result.                                   *)
LaterIssuedWins ==
  [][\A q \in inflight \ inflight' : \A s \in settled :
       (/\ q.useCache /\ s.call.useCache
        /\ s.src = "store" /\ s.st = "ok" /\ s.qkey = q.key
        /\ IssuedAfter(s, q)
        /\ \E t \in settled' : t.st = "ok" /\ q.waiters[1] = t.call.id)
       => /\ q.key \in DOMAIN cache'
          /\ cache'[q.key].data = s.val]_vars

(* C29, as claimed. Document and query keys. Document lookups and           *)
(* collection queries never share a cache entry: the key of a getDocument  *)
(* call is never the key of a getCollection or smartQuery call, and a      *)
(* value served from the cache is a document for getDocument and a         *)
(* sequence of documents for getCollection and smartQuery.                 *)
SeparateEntries ==
  /\ \A i \in DOMAIN waiting : \A j \in DOMAIN waiting :
       (waiting[i].op = "getDocument" /\ waiting[j].op # "getDocument")
       => waiting[i].key # waiting[j].key
  /\ \A s \in settled :
       s.src = "cache" =>
         IF s.call.op = "getDocument"
         THEN s.val[1] = "doc"
         ELSE s.val[1] = "docs"

\* what getCacheStats reports of the coordinator's two maps
getCacheStats ==
  [pendingQueries |-> Cardinality(DOMAIN pendingQueries),
   queuedQueries |-> Cardinality(DOMAIN batchQueue)]

(* C30. The coordinator's maps stay in step. In every state pendingQueries *)
(* and batchQueue have the same set of keys, and every pending group has   *)
(* at least one waiter: no queryFn is queued without a group of waiters,   *)
(* no group waits without a queued queryFn, and getCacheStats reports      *)
(* pendingQueries equal to queuedQueries.                                  *)
MapsInStep ==
  /\ DOMAIN pendingQueries = DOMAIN batchQueue
  /\ \A k \in DOMAIN pendingQueries : Len(pendingQueries[k]) >= 1
  /\ getCacheStats.pendingQueries = getCacheStats.queuedQueries

(* after a flush whose query is still in flight, a new window holds a      *)
(* group of two waiters with its queued queryFn                            *)
MapsInStepWitness ==
  /\ flushes = 1
  /\ inflight # {}
  /\ \E k \in DOMAIN pendingQueries : Len(pendingQueries[k]) = 2
  /\ DOMAIN batchQueue # {}

====
